---------------------------- MODULE Spec2Model ----------------------------
(***************************************************************************)
(* A model of the PDF export of src/db7559__12_pdf.py: the page layout     *)
(* loop of create_pdf (lines 305-427) with its caller (433-440), the line  *)
(* wrapper wrap_text (260-273) and convert_google_drive_link (251-258).    *)
(*                                                                         *)
(* Lengths.  reportlab's A4 is 210mm x 297mm with 1mm = 72/25.4 pt, so     *)
(* every length of the layout is a whole number of 1/127 pt: lengths are   *)
(* kept in that unit (1 mm = 360 units) and the arithmetic of the code is  *)
(* modelled over the rationals, exactly.  Rounding of IEEE doubles is not  *)
(* modelled.                                                               *)
(*                                                                         *)
(* Text.  The layout loop uses a wrapped field only through the number of  *)
(* its lines, so a record is given to the loop as its line counts; the     *)
(* wrapper itself is modelled character by character under SpecWrap.       *)
(***************************************************************************)
EXTENDS Integers, Sequences, FiniteSets, TLC

VARIABLES
    \* ---- create_pdf and its caller
    pc,           \* "idle" | "loop" | "record" | "saved" | "done"
    progress_on,  \* st.session_state["progress_on"]
    reports,      \* the values passed to st.session_state["progress"].progress
    total,        \* len(records)
    idx,          \* the loop index (enumerate(..., start=1)); 0 before the loop
    y,            \* the page cursor
    est_h,        \* the record's estimated height
    img_est_h,    \* the record's estimated image (or fallback) height
    link,         \* the record's link and what the fetch gave (pil)
    queue,        \* what is left to draw of the record, in order
    \* ---- observations of the record being laid out (reset by BeginRecord)
    qStartY,      \* the cursor when the first question line is drawn
    midBreak,     \* new_page was called after the question was started
    lowY,         \* the lowest cursor a line or an image was drawn at
    drawn,        \* the kinds of content drawn for the record
    errH,         \* the height of the fallback lines of a failed image draw
    rect,         \* the rectangle handed to drawImage and the room it had
    preBreak,     \* new_page was called before the question (line 383)
    nfail,        \* the records of the run so far whose image was not drawn
    \* ---- wrap_text
    w_pc, w_text, w_max, w_i, w_buf, w_lines,
    \* ---- convert_google_drive_link
    l_pc, url, result

layoutVars == <<pc, progress_on, reports, total, idx, y, est_h, img_est_h, link,
                queue, qStartY, midBreak, lowY, drawn, errH, rect, preBreak, nfail>>
wrapVars == <<w_pc, w_text, w_max, w_i, w_buf, w_lines>>
linkVars == <<l_pc, url, result>>
vars == <<layoutVars, wrapVars, linkVars>>

-----------------------------------------------------------------------------
(* Bounds of the model *)

\* the number of records of one export
MaxRecords == 2
\* the length of a wrapped string, in characters
MaxLen == 4
\* the largest max_width handed to wrap_text
MaxWidthArg == 4
\* the number of pieces a URL is put together from
MaxTokens == 4

-----------------------------------------------------------------------------
(* Layout constants, in units of 1/127 pt *)

Unit == 127
width == 210 * 360
height == 297 * 360
top_margin == 40 * Unit
bottom_margin == 60 * Unit
left_margin == 40 * Unit
right_margin == 40 * Unit
usable_width == width - left_margin - right_margin
page_usable_h == (height - top_margin) - bottom_margin
line_h == 18 * Unit
\* the literal 20 of lines 361, 379, 406, 417 and 420
pad == 20 * Unit

Max(a, b) == IF a >= b THEN a ELSE b
Min(a, b) == IF a <= b THEN a ELSE b

RECURSIVE SumSeq(_)
SumSeq(s) == IF s = <<>> THEN 0 ELSE Head(s) + SumSeq(Tail(s))

-----------------------------------------------------------------------------
(* The inputs of the layout loop *)

\* len(wrapped_lines(...)) of a question, of the choices, of the answer and of
\* the category: wrap_text returns at least one line for every string
QLineCounts == {1, 3, 20, 45}
ChoiceLists == {<<>>, <<1, 2>>, <<1, 1, 1, 1, 1>>}
AnsLineCounts == {1, 2}
CatLineCounts == {1}
\* pil.size in pixels: small, wide (4:3), tall, very wide
ImageSizes == {<<200, 100>>, <<640, 480>>, <<1000, 2000>>, <<1600, 100>>, <<500, 727>>}
NoLink == [kind |-> "none", iw |-> 0, ih |-> 0]
Links ==
    {NoLink}
    \cup {[kind |-> k, iw |-> 0, ih |-> 0] : k \in {"fetch_failed", "decode_failed"}}
    \cup {[kind |-> "image", iw |-> s[1], ih |-> s[2]] : s \in ImageSizes}
\* len(err_lines) of line 408: the message names the exception
ErrLineCounts == {1, 2}

\* line 364-365, 412: "[画像読み込み失敗]" is 9 characters of at most 12 pt each,
\* which fit usable_width, so the fallback is one line
FallbackLineCount == 1


-----------------------------------------------------------------------------
(* create_pdf: helpers *)

\* a scale factor is kept as a fraction <<n, d>>: n/d units of length per pixel
FracMin(f, g) == IF f[1] * g[2] <= g[1] * f[2] THEN f ELSE g

\* the scale without its cap of 1.0: a small image would be enlarged
ScaleUncapped(iw, ih) == FracMin(<<usable_width, iw>>, <<page_usable_h, ih>>)

\* lines 359, 393: min(usable_width / iw, page_usable_h / ih, 1.0)
Scale(iw, ih) ==
    FracMin(FracMin(<<usable_width, iw>>, <<page_usable_h, ih>>), <<Unit, 1>>)

\* lines 360, 394: iw * scale, ih * scale
Scaled(px, s) == (px * s[1]) \div s[2]

\* a new page whose cursor is measured from the wrong edge
NewPageYFromBottom == top_margin

\* lines 324-328: the cursor new_page leaves
NewPageY == height - top_margin

\* lines 350-365: img_est_h
ImgEstH(lk) ==
    CASE lk.kind = "image" -> Scaled(lk.ih, Scale(lk.iw, lk.ih)) + pad
      [] lk.kind \in {"fetch_failed", "decode_failed"} -> FallbackLineCount * line_h
      [] OTHER -> 0

\* an estimate that leaves out the trailing padding of line 379
EstHNoPad(q, ch, ie, a, c) ==
    q * line_h + SumSeq(ch) * line_h + ie + a * line_h + c * line_h

\* lines 368-379: est_h
EstH(q, ch, ie, a, c) ==
    q * line_h + SumSeq(ch) * line_h + (IF ie # 0 THEN ie ELSE 0)
      + a * line_h + c * line_h + pad

\* no page break before the question, and one that forgets the bottom margin
BreakBeforeNever(yy, e) == FALSE
BreakBeforeIgnoresMargin(yy, e) == yy - e < 0

\* lines 382-383: the page break taken before the question
BreakBefore(yy, e) == yy - e < bottom_margin

\* lines 386-415: the draw calls of one record, in the order the code makes them
DrawPlan(q, ch, lk, a, c) ==
    <<<<"q", q>>>>
    \o [i \in 1..Len(ch) |-> <<"choice", ch[i]>>]
    \o (CASE lk.kind = "image" -> <<<<"image", 0>>>>
          [] lk.kind \in {"fetch_failed", "decode_failed"} ->
                <<<<"fallback", FallbackLineCount>>>>
          [] OTHER -> <<>>)
    \o <<<<"ans", a>>, <<"cat", c>>>>

\* lines 392-400: where and how large the image is placed with the cursor at yy
ImagePlan(yy, iw, ih) ==
    LET s == Scale(iw, ih)
        nw0 == Scaled(iw, s)
        nh0 == Scaled(ih, s)
        brk == yy - nh0 < bottom_margin
        y1 == IF brk THEN NewPageY ELSE yy
        remaining == y1 - bottom_margin
        shrink == nh0 > remaining
    IN  [brk |-> brk, y1 |-> y1, room |-> remaining,
         \* nw * adj = nw * remaining / nh = iw * remaining / ih
         nw |-> IF shrink THEN (iw * remaining) \div ih ELSE nw0,
         nh |-> IF shrink THEN remaining ELSE nh0]

\* the fraction of a loop index counted from 0
ProgressValueZeroBased(i, n) == <<i - 1, Max(n, 1)>>

\* line 423: min(idx / max(total, 1), 1.0), as a fraction <<n, d>>
ProgressValue(i, n) ==
    LET d == Max(n, 1) IN IF i <= d THEN <<i, d>> ELSE <<1, 1>>

NoRect == [nw |-> 0, nh |-> 0, iw |-> 0, ih |-> 0, room |-> 0]

-----------------------------------------------------------------------------
(* create_pdf and its caller: the actions *)

WrapIdle ==
    /\ w_pc = "off" /\ w_text = <<>> /\ w_max = 0
    /\ w_i = 0 /\ w_buf = <<>> /\ w_lines = <<>>
LinkIdle == l_pc = "off" /\ url = <<>> /\ result = <<>>

LayoutIdle ==
    /\ pc = "idle"
    /\ progress_on = FALSE
    /\ reports = <<>>
    /\ total = 0
    /\ idx = 0
    /\ y = height - top_margin
    /\ est_h = 0
    /\ img_est_h = 0
    /\ link = NoLink
    /\ queue = <<>>
    /\ qStartY = height - top_margin
    /\ midBreak = FALSE
    /\ lowY = height - top_margin
    /\ drawn = {}
    /\ errH = 0
    /\ rect = NoRect
    /\ preBreak = FALSE
    /\ nfail = 0

Init == LayoutIdle /\ WrapIdle /\ LinkIdle

\* lines 433-438 and 306-318: the button sets progress_on and calls create_pdf
ClickPdfButton ==
    /\ pc = "idle"
    /\ \E n \in 0..MaxRecords : total' = n
    /\ progress_on' = TRUE
    /\ reports' = <<>>
    /\ idx' = 0
    /\ y' = height - top_margin
    /\ pc' = "loop"
    /\ UNCHANGED <<est_h, img_est_h, link, queue, qStartY, midBreak, lowY, drawn,
                   errH, rect>>
    /\ preBreak' = FALSE
    /\ nfail' = 0
    /\ UNCHANGED <<wrapVars, linkVars>>

\* lines 336-383: the next record is read, its image fetched, its height
\* estimated and the page broken if the record does not fit
BeginRecord ==
    /\ pc = "loop"
    /\ idx < total
    /\ \E q \in QLineCounts, ch \in ChoiceLists, a \in AnsLineCounts,
          c \in CatLineCounts, lk \in Links :
         LET ie == ImgEstH(lk)
             e == EstH(q, ch, ie, a, c)
             y0 == IF BreakBefore(y, e) THEN NewPageY ELSE y
         IN  /\ link' = lk
             /\ img_est_h' = ie
             /\ est_h' = e
             /\ y' = y0
             /\ qStartY' = y0
             /\ queue' = DrawPlan(q, ch, lk, a, c)
             /\ preBreak' = BreakBefore(y, e)
             /\ nfail' = IF lk.kind \in {"fetch_failed", "decode_failed"}
                            THEN nfail + 1 ELSE nfail
    /\ idx' = idx + 1
    /\ pc' = "record"
    /\ midBreak' = FALSE
    /\ lowY' = height - top_margin
    /\ drawn' = {}
    /\ errH' = 0
    /\ rect' = NoRect
    /\ UNCHANGED <<progress_on, reports, total>>
    /\ UNCHANGED <<wrapVars, linkVars>>

\* lines 330-334, called at 386, 388, 412, 414, 415: one field's lines
DrawWrappedLines ==
    /\ pc = "record"
    /\ queue # <<>>
    /\ Head(queue)[1] # "image"
    /\ LET n == Head(queue)[2]
       IN  /\ y' = y - n * line_h
           /\ lowY' = Min(lowY, y - (n - 1) * line_h)
    /\ drawn' = drawn \cup {Head(queue)[1]}
    /\ queue' = Tail(queue)
    /\ UNCHANGED <<pc, progress_on, reports, total, idx, est_h, img_est_h, link,
                   qStartY, midBreak, errH, rect>>
    /\ UNCHANGED <<preBreak, nfail>>
    /\ UNCHANGED <<wrapVars, linkVars>>

\* lines 390-406: the image is placed and drawn
DrawImage ==
    /\ pc = "record"
    /\ queue # <<>>
    /\ Head(queue)[1] = "image"
    /\ LET p == ImagePlan(y, link.iw, link.ih)
       IN  /\ y' = p.y1 - (p.nh + pad)
           /\ midBreak' = (midBreak \/ p.brk)
           /\ lowY' = Min(lowY, p.y1)
           /\ rect' = [nw |-> p.nw, nh |-> p.nh, iw |-> link.iw, ih |-> link.ih,
                       room |-> p.room]
    /\ drawn' = drawn \cup {"image"}
    /\ queue' = Tail(queue)
    /\ UNCHANGED <<pc, progress_on, reports, total, idx, est_h, img_est_h, link,
                   qStartY, errH>>
    /\ UNCHANGED <<preBreak, nfail>>
    /\ UNCHANGED <<wrapVars, linkVars>>

\* the draw's exception leaves create_pdf (pc = "aborted"): what the code would
\* do without the handler of lines 407-409
DrawImageRaisesUncaught ==
    /\ pc = "record"
    /\ queue # <<>>
    /\ Head(queue)[1] = "image"
    /\ pc' = "aborted"
    /\ UNCHANGED <<progress_on, reports, total, idx, y, est_h, img_est_h, link,
                   queue, qStartY, midBreak, lowY, drawn, errH, rect>>
    /\ UNCHANGED <<preBreak, nfail>>
    /\ UNCHANGED <<wrapVars, linkVars>>

\* lines 390-409: pil.save, ImageReader or drawImage raises (after the page
\* break of line 396, before the cursor moves at 406); the handler draws the
\* message instead
DrawImageRaises ==
    /\ pc = "record"
    /\ queue # <<>>
    /\ Head(queue)[1] = "image"
    /\ \E n \in ErrLineCounts :
         LET p == ImagePlan(y, link.iw, link.ih)
         IN  /\ y' = p.y1 - n * line_h
             /\ midBreak' = (midBreak \/ p.brk)
             /\ lowY' = Min(lowY, p.y1 - (n - 1) * line_h)
             /\ errH' = n * line_h
    /\ drawn' = drawn \cup {"err"}
    /\ queue' = Tail(queue)
    /\ UNCHANGED <<pc, progress_on, reports, total, idx, est_h, img_est_h, link,
                   qStartY, rect>>
    /\ nfail' = nfail + 1
    /\ UNCHANGED preBreak
    /\ UNCHANGED <<wrapVars, linkVars>>

\* lines 417-423: the trailing padding, or a new page, then the progress report
TrailingPad ==
    /\ pc = "record"
    /\ queue = <<>>
    /\ IF y - pad < bottom_margin
         THEN y' = NewPageY /\ midBreak' = TRUE
         ELSE y' = y - pad /\ midBreak' = midBreak
    /\ reports' = IF progress_on
                    THEN Append(reports, ProgressValue(idx, total))
                    ELSE reports
    /\ pc' = "loop"
    /\ UNCHANGED <<progress_on, total, idx, est_h, img_est_h, link, queue, qStartY,
                   lowY, drawn, errH, rect>>
    /\ UNCHANGED <<preBreak, nfail>>
    /\ UNCHANGED <<wrapVars, linkVars>>

\* lines 425-427: the loop is over, the document is saved and returned
Save ==
    /\ pc = "loop"
    /\ idx = total
    /\ pc' = "saved"
    /\ UNCHANGED <<progress_on, reports, total, idx, y, est_h, img_est_h, link,
                   queue, qStartY, midBreak, lowY, drawn, errH, rect>>
    /\ UNCHANGED <<preBreak, nfail>>
    /\ UNCHANGED <<wrapVars, linkVars>>

\* lines 438-440: back in the button's handler
ButtonReturn ==
    /\ pc = "saved"
    /\ progress_on' = FALSE
    /\ pc' = "done"
    /\ UNCHANGED <<reports, total, idx, y, est_h, img_est_h, link, queue, qStartY,
                   midBreak, lowY, drawn, errH, rect>>
    /\ UNCHANGED <<preBreak, nfail>>
    /\ UNCHANGED <<wrapVars, linkVars>>

Next ==
    \/ ClickPdfButton
    \/ BeginRecord
    \/ DrawWrappedLines
    \/ DrawImage
    \/ DrawImageRaises
    \/ TrailingPad
    \/ Save
    \/ ButtonReturn

Spec == Init /\ [][Next]_vars

-----------------------------------------------------------------------------
(* wrap_text (lines 260-273), one character at a time *)

\* the characters of the model and their widths under stringWidth at the font
\* and size in use: a zero-width mark, a narrow, a wide and an over-wide glyph
Alphabet == {"^", "i", "m", "W"}
CharWidth(ch) ==
    CASE ch = "^" -> 0
      [] ch = "i" -> 1
      [] ch = "m" -> 2
      [] OTHER -> MaxWidthArg + 2

\* stringWidth of a CID or TrueType font without kerning: the sum of the
\* widths of the characters, which is monotonic in the prefix
RECURSIVE stringWidth(_)
stringWidth(str) ==
    IF str = <<>> THEN 0 ELSE CharWidth(Head(str)) + stringWidth(Tail(str))

Strings == UNION {[1..n -> Alphabet] : n \in 0..MaxLen}

RECURSIVE Concat(_)
Concat(ls) == IF ls = <<>> THEN <<>> ELSE Head(ls) \o Concat(Tail(ls))

WrapInit ==
    /\ w_pc = "start"
    /\ w_text \in Strings
    /\ w_max \in 0..MaxWidthArg
    /\ w_i = 0
    /\ w_buf = <<>>
    /\ w_lines = <<>>
    /\ LayoutIdle
    /\ LinkIdle

\* lines 262-263: the empty string is one empty line
WrapEmpty ==
    /\ w_pc = "start"
    /\ w_text = <<>>
    /\ w_lines' = <<<<>>>>
    /\ w_pc' = "done"
    /\ UNCHANGED <<w_text, w_max, w_i, w_buf>>
    /\ UNCHANGED <<layoutVars, linkVars>>

\* line 264: lines, buf = [], ""
WrapBegin ==
    /\ w_pc = "start"
    /\ w_text # <<>>
    /\ w_lines' = <<>>
    /\ w_buf' = <<>>
    /\ w_i' = 0
    /\ w_pc' = "loop"
    /\ UNCHANGED <<w_text, w_max>>
    /\ UNCHANGED <<layoutVars, linkVars>>

\* lines 265-267: the next character fits the buffer
WrapAppend ==
    /\ w_pc = "loop"
    /\ w_i < Len(w_text)
    /\ LET ch == w_text[w_i + 1]
       IN  /\ stringWidth(Append(w_buf, ch)) <= w_max
           /\ w_buf' = Append(w_buf, ch)
    /\ w_i' = w_i + 1
    /\ UNCHANGED <<w_pc, w_text, w_max, w_lines>>
    /\ UNCHANGED <<layoutVars, linkVars>>

\* the flush loses the character that did not fit
WrapFlushDropsChar ==
    /\ w_pc = "loop"
    /\ w_i < Len(w_text)
    /\ LET ch == w_text[w_i + 1]
       IN  /\ stringWidth(Append(w_buf, ch)) > w_max
           /\ w_lines' = Append(w_lines, w_buf)
           /\ w_buf' = <<>>
    /\ w_i' = w_i + 1
    /\ UNCHANGED <<w_pc, w_text, w_max>>
    /\ UNCHANGED <<layoutVars, linkVars>>

\* lines 268-270: it does not fit: the buffer is flushed and restarted with it
WrapFlush ==
    /\ w_pc = "loop"
    /\ w_i < Len(w_text)
    /\ LET ch == w_text[w_i + 1]
       IN  /\ stringWidth(Append(w_buf, ch)) > w_max
           /\ w_lines' = Append(w_lines, w_buf)
           /\ w_buf' = <<ch>>
    /\ w_i' = w_i + 1
    /\ UNCHANGED <<w_pc, w_text, w_max>>
    /\ UNCHANGED <<layoutVars, linkVars>>

\* lines 271-273: the rest of the buffer is the last line
WrapFinish ==
    /\ w_pc = "loop"
    /\ w_i = Len(w_text)
    /\ w_lines' = IF w_buf # <<>> THEN Append(w_lines, w_buf) ELSE w_lines
    /\ w_pc' = "done"
    /\ UNCHANGED <<w_text, w_max, w_i, w_buf>>
    /\ UNCHANGED <<layoutVars, linkVars>>

WrapNext ==
    \/ WrapEmpty
    \/ WrapBegin
    \/ WrapAppend
    \/ WrapFlush
    \/ WrapFinish

SpecWrap == WrapInit /\ [][WrapNext]_vars

-----------------------------------------------------------------------------
(* convert_google_drive_link (lines 251-258), on strings of characters *)

Marker ==
    <<"d", "r", "i", "v", "e", ".", "g", "o", "o", "g", "l", "e",
      ".", "c", "o", "m">>
FileSeg ==
    <<"/", "f", "i", "l", "e", "/", "d", "/">>
Slash == <<"/">>
CanonicalPrefix ==
    <<"h", "t", "t", "p", "s", ":", "/", "/", "d", "r", "i", "v",
      "e", ".", "g", "o", "o", "g", "l", "e", ".", "c", "o", "m",
      "/", "u", "c", "?", "e", "x", "p", "o", "r", "t", "=", "v",
      "i", "e", "w", "&", "i", "d", "=">>

\* the pieces the URLs of the model are put together from
Tokens == {
    <<"h", "t", "t", "p", "s", ":", "/", "/", "d", "r", "i", "v",
      "e", ".", "g", "o", "o", "g", "l", "e", ".", "c", "o", "m">>,
    FileSeg,
    <<"A", "B", "C", "1", "2", "3">>,
    <<"/", "v", "i", "e", "w", "?", "u", "s", "p", "=", "s", "h",
      "a", "r", "i", "n", "g">>,
    <<"h", "t", "t", "p", "s", ":", "/", "/", "e", "x", "a", "m",
      "p", "l", "e", ".", "c", "o", "m", "/", "i", "m", "g", ".",
      "p", "n", "g">>,
    Slash}

RECURSIVE Join(_)
Join(ts) == IF ts = <<>> THEN <<>> ELSE Head(ts) \o Join(Tail(ts))
Urls == {Join(ts) : ts \in UNION {[1..n -> Tokens] : n \in 0..MaxTokens}}

\* pat occurs in str at index i
OccursAt(str, pat, i) ==
    /\ i >= 1
    /\ i + Len(pat) - 1 <= Len(str)
    /\ SubSeq(str, i, i + Len(pat) - 1) = pat

\* Python's `pat in str`
Contains(str, pat) == \E i \in 1..(Len(str) + 1) : OccursAt(str, pat, i)

\* str.find(pat) + 1: the first index pat occurs at, 0 when it does not
Find(str, pat) ==
    IF Contains(str, pat)
      THEN CHOOSE i \in 1..(Len(str) + 1) :
             /\ OccursAt(str, pat, i)
             /\ \A j \in 1..(i - 1) : ~OccursAt(str, pat, j)
      ELSE 0

\* Python's str.split(sep): the pieces between the occurrences of sep, found
\* left to right without overlap
RECURSIVE Split(_, _)
Split(str, sep) ==
    LET i == Find(str, sep)
    IN  IF i = 0
          THEN <<str>>
          ELSE <<SubSeq(str, 1, i - 1)>>
               \o Split(SubSeq(str, i + Len(sep), Len(str)), sep)

\* line 252
IsDriveFileLink(u) == Contains(u, Marker) /\ Contains(u, FileSeg)

\* the id without its split("/")[0]
FileIdWholeTail(u) == Split(u, FileSeg)[2]

\* line 254: url.split("/file/d/")[1].split("/")[0]
FileId(u) == Split(Split(u, FileSeg)[2], Slash)[1]

LinkInit ==
    /\ l_pc = "start"
    /\ url \in Urls
    /\ result = <<>>
    /\ LayoutIdle
    /\ WrapIdle

\* lines 252-255: a Drive file link is rewritten
LinkRewrite ==
    /\ l_pc = "start"
    /\ IsDriveFileLink(url)
    /\ result' = CanonicalPrefix \o FileId(url)
    /\ l_pc' = "done"
    /\ UNCHANGED url
    /\ UNCHANGED <<layoutVars, wrapVars>>

\* line 258: any other URL is returned as it is
LinkPassThrough ==
    /\ l_pc = "start"
    /\ ~IsDriveFileLink(url)
    /\ result' = url
    /\ l_pc' = "done"
    /\ UNCHANGED url
    /\ UNCHANGED <<layoutVars, wrapVars>>

LinkNext ==
    \/ LinkRewrite
    \/ LinkPassThrough

SpecLink == LinkInit /\ [][LinkNext]_vars

-----------------------------------------------------------------------------
(* Properties of create_pdf, checked under Spec *)

\* the first question line of the record is about to be drawn
AtQuestionStart == pc = "record" /\ queue # <<>> /\ Head(queue)[1] = "q"

\* the record idx has been laid out to the end of its trailing padding
RecordDone == pc \in {"loop", "saved", "done"} /\ idx >= 1

\* the record idx is being laid out or has just been
InRecord == pc \in {"record", "loop", "saved", "done"} /\ idx >= 1

\* C1: when the first question line of a record is drawn, the cursor is not
\* below the bottom margin: y - bottom_margin >= 0.
Thm_C1_QuestionNotBelowBottomMargin ==
    AtQuestionStart => y - bottom_margin >= 0

\* a later record's question is started lower on a page already in use
Wit_C1_QuestionStartedMidPage ==
    AtQuestionStart /\ idx >= 2 /\ ~preBreak /\ y < height - top_margin

\* C2 (as claimed): when the first question line of any record is drawn, also
\* of a record taller than a page, y - est_h >= bottom_margin.
CE_C2_EveryRecordHasRoom ==
    AtQuestionStart => y - est_h >= bottom_margin

\* C2 (amended): when the first question line of a record is drawn, either
\* y - est_h >= bottom_margin, or the record is taller than the usable page
\* height and is started at the top of a fresh page.
Thm_C2_RoomOrFreshPage ==
    AtQuestionStart =>
        \/ y - est_h >= bottom_margin
        \/ est_h > page_usable_h /\ y = height - top_margin

\* a record taller than a page is started after a page break
Wit_C2_OversizeRecordOnFreshPage ==
    AtQuestionStart /\ idx >= 2 /\ preBreak /\ est_h > page_usable_h

\* C3: no image failure aborts the build: the run can always go on until it
\* has saved, a finished record with a link and no image has its fallback
\* message, its answer and category are drawn after it, and the document is
\* saved only when every record has been laid out.
Thm_C3_FailureIsolation ==
    /\ pc # "aborted"
    /\ pc # "done" => ENABLED Next
    /\ pc = "record" /\ "ans" \in drawn /\ link.kind # "none"
         => drawn \cap {"image", "fallback", "err"} # {}
    /\ RecordDone =>
         /\ {"q", "ans", "cat"} \subseteq drawn
         /\ link.kind # "none" /\ "image" \notin drawn
              => drawn \cap {"fallback", "err"} # {}
    /\ pc \in {"saved", "done"} => idx = total

\* the run ends after a record whose image draw raised and a later record
\* without a link
Wit_C3_SavedAfterFailedImages ==
    pc = "done" /\ nfail >= 1 /\ idx >= 2 /\ link.kind = "none"

\* C4 (as claimed): a record laid out without a page break after its question
\* was started descends by est_h exactly, whatever happened to its image.
CE_C4_DescentEqualsEstimate ==
    RecordDone /\ ~midBreak => qStartY - y = est_h

\* C4 (amended): such a record descends by est_h exactly when it has no link,
\* when its image was drawn and when the fetch failed; when the image draw
\* raised, the estimate holds the image (nh + 20) and the record descends by
\* the fallback lines instead: est_h - img_est_h + line_h * len(err_lines).
Thm_C4_DescentEqualsEstimate ==
    RecordDone /\ ~midBreak =>
        qStartY - y = IF "err" \in drawn THEN est_h - img_est_h + errH ELSE est_h

\* a record with a drawn image, on a page it shares
Wit_C4_ImageRecordNoBreak ==
    RecordDone /\ ~midBreak /\ "image" \in drawn /\ idx >= 2 /\ ~preBreak

\* a reported value a/b, compared without division
FracLeq(f, g) == f[1] * g[2] <= g[1] * f[2]

\* C7: progress is reported once per record, after its trailing padding and
\* before the next record; the values are in [0,1] and non-decreasing, and
\* the last one is 1.0.
Thm_C7_Progress ==
    /\ Len(reports) = (IF pc = "record" THEN idx - 1 ELSE idx)
    /\ \A i \in 1..Len(reports) :
         /\ reports[i][2] > 0
         /\ 0 <= reports[i][1]
         /\ reports[i][1] <= reports[i][2]
    /\ \A i \in 1..Len(reports), j \in 1..Len(reports) :
         i <= j => FracLeq(reports[i], reports[j])
    /\ pc \in {"saved", "done"} /\ total >= 1 =>
         reports[Len(reports)][1] = reports[Len(reports)][2]

\* a run of several records has reported them all
Wit_C7_AllReported ==
    pc = "done" /\ total >= 2 /\ Len(reports) = total

\* C8: the cursor stays in [bottom_margin, height - top_margin] in every state,
\* and nothing is drawn with the cursor below bottom_margin.
CE_C8_CursorInBounds ==
    /\ bottom_margin <= y
    /\ y <= height - top_margin
    /\ bottom_margin <= lowY

\* C9: the rectangle handed to drawImage is never upscaled, fits the usable
\* width and the room left on the page, and keeps the image's ratio.
Thm_C9_ImageGeometry ==
    "image" \in drawn =>
        /\ rect.nw > 0 /\ rect.nh > 0
        /\ rect.nw <= Min(rect.iw * Unit, usable_width)
        /\ rect.nh <= Min(rect.ih * Unit, rect.room)
        /\ rect.nw * rect.ih = rect.nh * rect.iw

\* a downscaled image that fills a page it was moved to
Wit_C9_ScaledImageOnNewPage ==
    "image" \in drawn /\ midBreak /\ rect.nh < rect.ih * Unit
        /\ rect.nh = rect.room

\* C10: a record no taller than the usable page height whose image draw does
\* not raise has no page break after its question is started: none before its
\* image and none at its trailing padding.
Thm_C10_OnePageContainment ==
    InRecord /\ est_h <= page_usable_h /\ "err" \notin drawn => ~midBreak

\* such a record, with an image, started after the page break before its
\* question and laid out to its end
Wit_C10_RecordAfterBreak ==
    RecordDone /\ preBreak /\ est_h <= page_usable_h /\ "image" \in drawn
        /\ ~midBreak /\ idx >= 2

-----------------------------------------------------------------------------
(* Properties of wrap_text, checked under SpecWrap *)

\* C5: the lines, concatenated in order, are the string; every line fits
\* max_width unless it is a single character wider than max_width.
Thm_C5_WrapCorrect ==
    w_pc = "done" =>
        /\ Concat(w_lines) = w_text
        /\ \A i \in 1..Len(w_lines) :
             \/ stringWidth(w_lines[i]) <= w_max
             \/ Len(w_lines[i]) = 1 /\ stringWidth(w_lines[i]) > w_max

\* a string wrapped into several lines, one of them an over-wide character
Wit_C5_OverwideCharacterLine ==
    /\ w_pc = "done"
    /\ Len(w_lines) >= 3
    /\ \E i \in 1..Len(w_lines) : stringWidth(w_lines[i]) > w_max
    /\ \E i \in 1..Len(w_lines) : Len(w_lines[i]) >= 2

-----------------------------------------------------------------------------
(* Properties of convert_google_drive_link, checked under SpecLink *)

\* the characters after the first "/file/d/" up to the next "/", or to the
\* end of the URL when no "/" follows
IdText(u) ==
    LET p == (CHOOSE i \in 1..Len(u) :
                /\ OccursAt(u, FileSeg, i)
                /\ \A j \in 1..(i - 1) : ~OccursAt(u, FileSeg, j)) + Len(FileSeg)
        stops == {k \in p..Len(u) : u[k] = "/"}
        q == IF stops = {} THEN Len(u) + 1
             ELSE CHOOSE k \in stops : \A m \in stops : k <= m
    IN  SubSeq(u, p, q - 1)

\* a "/file/d/{id}/" segment: a "/file/d/" with a "/" somewhere after it
HasClosedSegment(u) ==
    \E i \in 1..Len(u) :
        /\ OccursAt(u, FileSeg, i)
        /\ \E k \in (i + Len(FileSeg))..Len(u) : u[k] = "/"

\* C6 (as claimed): a URL with the marker and a "/file/d/{id}/" segment closed
\* by a slash becomes the canonical URL of {id}; every other URL, also one
\* whose id is not followed by a slash, is returned unchanged.
CE_C6_RewriteOnlyClosedSegment ==
    l_pc = "done" =>
        result = IF Contains(url, Marker) /\ HasClosedSegment(url)
                   THEN CanonicalPrefix \o IdText(url)
                   ELSE url

\* C6 (amended): a URL with the marker and a "/file/d/" becomes the canonical
\* URL of the id, the text between the first "/file/d/" and the next "/" or,
\* when no "/" follows, the end of the URL; every other URL is unchanged.
Thm_C6_RewriteToNextSlashOrEnd ==
    l_pc = "done" =>
        result = IF Contains(url, Marker) /\ Contains(url, FileSeg)
                   THEN CanonicalPrefix \o IdText(url)
                   ELSE url

\* a Drive link whose id ends the URL has been rewritten
Wit_C6_UnclosedIdRewritten ==
    /\ l_pc = "done"
    /\ Contains(url, Marker)
    /\ Contains(url, FileSeg)
    /\ ~HasClosedSegment(url)
    /\ IdText(url) # <<>>
    /\ result # url

=============================================================================
